---------------------------- MODULE Spec2Model ----------------------------
(***************************************************************************)
(* Model of src/app_trench_v2.py: the memoized five-file loader load_data  *)
(* and the render function main with its five tabs.                        *)
(*                                                                         *)
(* Conventions.  Dates are day ordinals of the year 2025 (1 = 2025-01-01). *)
(* A float that pandas holds as NaN is the value NaN.  A mean or a median  *)
(* is kept exactly, as a fraction or as twice its value.  Text is a        *)
(* sequence of syllables, romanised.                                       *)
(***************************************************************************)
EXTENDS Integers, Sequences, FiniteSets, TLC

VARIABLES disk, anchor, cache, reads, pc, tables, date_range, view, renders

vars == <<disk, anchor, cache, reads, pc, tables, date_range, view, renders>>

-----------------------------------------------------------------------------
(* Bounds of the model *)

MaxRenders == 2
MaxMarketRows == 2
MaxItems == 2
MaxTrendRows == 2
MaxExpansionRows == 2
LongKeywords == 21

-----------------------------------------------------------------------------
(* Values *)

\* the float NaN that errors='coerce' and empty aggregates produce
NaN == -1
\* a CSV cell whose text is not a number
RawText == -2
\* float('inf'), the last bin edge: above every price
Inf == 1000000000

\* pd.to_numeric(column, errors='coerce') on one cell
ToNumeric(cell) == IF cell = RawText THEN NaN ELSE cell

FileNames == <<"fc", "si", "ex", "ct", "sg">>

\* keywords: sequences of syllables
KwTrench == <<"teu", "ren", "chi", "ko", "teu">>
KwCoat == <<"rong", "ko", "teu">>
KwTrend == <<"teu", "ren", "deu">>
KwJacket == <<"ja", "ket">>
\* a missing keyword cell
KwNaN == <<"NaN">>

\* the two alternatives of the pattern given to str.contains
TrenchPatterns == {<<"teu", "ren", "chi">>, <<"ko", "teu">>}

\* whether pat occurs in s as a contiguous substring
Contains(s, pat) ==
    \E i \in 1..(Len(s) - Len(pat) + 1) :
        \A j \in 1..Len(pat) : s[i + j - 1] = pat[j]

\* Series.str.contains('A|B', na=False) on one cell
StrContainsTrench(kw) ==
    IF kw = KwNaN THEN FALSE ELSE \E p \in TrenchPatterns : Contains(kw, p)

RECURSIVE SumSeq(_)
SumSeq(s) == IF s = <<>> THEN 0 ELSE Head(s) + SumSeq(Tail(s))

\* the elements of s that satisfy Test, in order
FilterSeq(s, Test(_)) == SelectSeq(s, Test)

IsNum(x) == x # NaN

\* the ratio column of a row sequence
RatioCol(rows) == [i \in 1..Len(rows) |-> rows[i].ratio]

\* Series.mean(): NaN skipped; <<sum, count>>, count 0 standing for NaN
Mean(col) ==
    LET nums == SelectSeq(col, IsNum)
    IN  <<SumSeq(nums), Len(nums)>>

\* a > b on two floats that are means; any comparison with NaN is False
MeanGt(a, b) ==
    /\ a[2] > 0
    /\ b[2] > 0
    /\ a[1] * b[2] > b[1] * a[2]

\* n/d rounded to the nearest integer, ties to even (d > 0, n >= 0)
RoundHalfEven(n, d) ==
    LET q == n \div d
        r == n % d
    IN  IF 2 * r < d THEN q
        ELSE IF 2 * r > d THEN q + 1
        ELSE IF q % 2 = 0 THEN q ELSE q + 1

-----------------------------------------------------------------------------
(* The tables *)

\* the None that load_data returns in place of a table
NoneTable == [isNone |-> TRUE, rows |-> <<>>]

NoneItems ==
    [isNone |-> TRUE, cols |-> {}, title |-> <<>>, lprice |-> <<>>,
     price_range |-> <<>>]

\* return None, None, None, None, None
NoneTables ==
    [fc |-> NoneTable, si |-> NoneItems, ex |-> NoneTable, ct |-> NoneTable,
     sg |-> NoneTable]

\* read_csv followed by the to_numeric of the ratio column
ParseRows(file) ==
    [isNone |-> FALSE,
     rows |-> [i \in 1..Len(file.rows) |->
                  [file.rows[i] EXCEPT !.ratio = ToNumeric(@)]]]

\* read_csv of the shopping items; lprice is coerced only when the column exists
ParseItems(file) ==
    [isNone |-> FALSE,
     cols |-> IF file.has_lprice THEN {"title", "lprice"} ELSE {"title"},
     title |-> file.title,
     lprice |-> IF file.has_lprice
                THEN [i \in 1..Len(file.lprice) |-> ToNumeric(file.lprice[i])]
                ELSE <<>>,
     price_range |-> <<>>]

\* whether loading file number i raises: read_csv on a missing file, or
\* to_datetime on a period column that does not parse (no period in file 2)
FileRaises(d, i) ==
    LET f == d[FileNames[i]]
    IN  \/ f.status = "missing"
        \/ f.status = "badperiod" /\ FileNames[i] # "si"

ParseFile(d, name) ==
    IF name = "si" THEN ParseItems(d[name]) ELSE ParseRows(d[name])

\* a loader that leaves None only in the place of the file that failed
LoadDataPerFile(d) ==
    LET bad == {i \in 1..5 : FileRaises(d, i)}
    IN  [value |-> [n \in {"fc", "si", "ex", "ct", "sg"} |->
                       IF \E i \in bad : FileNames[i] = n
                       THEN NoneTables[n] ELSE ParseFile(d, n)],
         errors |-> Cardinality(bad),
         read |-> [i \in 1..5 |-> 1]]

\* the body of load_data: the five files in order inside one try; the first
\* exception reports one error and returns five None
LoadData(d) ==
    LET bad == {i \in 1..5 : FileRaises(d, i)}
        first == IF bad = {} THEN 0
                 ELSE CHOOSE i \in bad : \A j \in bad : i <= j
    IN  IF first = 0
        THEN [value |-> [n \in {"fc", "si", "ex", "ct", "sg"} |-> ParseFile(d, n)],
              errors |-> 0,
              read |-> [i \in 1..5 |-> 1]]
        ELSE [value |-> NoneTables,
              errors |-> 1,
              read |-> [i \in 1..5 |-> IF i <= first THEN 1 ELSE 0]]

NoCache == [hit |-> FALSE, value |-> NoneTables, errors |-> 0]

\* a decorator that runs the body on every call
UncachedLoadData(c, d) ==
    LET r == LoadData(d)
    IN  [value |-> r.value, errors |-> r.errors, read |-> r.read,
         cache |-> [hit |-> TRUE, value |-> r.value, errors |-> r.errors]]

\* @st.cache_data: the first call runs the body and stores what it returned
\* and the elements it emitted; a later call returns a copy of the stored
\* value and replays the elements, without running the body
CachedLoadData(c, d) ==
    IF c.hit
    THEN [value |-> c.value, errors |-> c.errors,
          read |-> [i \in 1..5 |-> 0], cache |-> c]
    ELSE LET r == LoadData(d)
         IN  [value |-> r.value, errors |-> r.errors, read |-> r.read,
              cache |-> [hit |-> TRUE, value |-> r.value, errors |-> r.errors]]

AllLoaded(t) == \A n \in DOMAIN t : ~t[n].isNone
NoneLoaded(t) == \A n \in DOMAIN t : t[n].isNone

-----------------------------------------------------------------------------
(* Dates *)

DaysInMonth == <<31, 28, 31, 30, 31, 30, 31, 31, 30, 31, 30, 31>>

RECURSIVE DaysBefore(_)
DaysBefore(m) == IF m = 1 THEN 0 ELSE DaysInMonth[m - 1] + DaysBefore(m - 1)

\* pd.to_datetime('YYYY-MM-DD') for a date of 2025, as a day ordinal
ToDatetime(ymd) == DaysBefore(ymd[2]) + ymd[3]

\* the month of a day ordinal
MonthOf(d) == CHOOSE m \in 1..12 : DaysBefore(m) < d /\ d <= DaysBefore(m) + DaysInMonth[m]

\* strftime('%m/%d')
StrfMonthDay(d) == <<MonthOf(d), d - DaysBefore(MonthOf(d))>>

\* strftime('%Y-%m-%d')
StrfDate(d) == <<2025, MonthOf(d), d - DaysBefore(MonthOf(d))>>

-----------------------------------------------------------------------------
(* Tab 1 and tab 5: trench against the market *)

IsTrenchRow(r) == StrContainsTrench(r.keyword)

\* full_comparison[full_comparison['keyword'].str.contains(..., na=False)]
TrenchData(fc) == SelectSeq(fc.rows, IsTrenchRow)

\* the branch taken by "if trench_avg > market_avg: ... else: ..."
Verdict(fc) ==
    LET trench_avg == Mean(RatioCol(TrenchData(fc)))
        market_avg == Mean(RatioCol(fc.rows))
    IN  IF MeanGt(trench_avg, market_avg) THEN "above" ELSE "below"

\* what tab 1 shows: nothing when no keyword matches
Tab1View(fc) ==
    IF Len(TrenchData(fc)) > 0
    THEN [shown |-> TRUE, verdict |-> Verdict(fc)]
    ELSE [shown |-> FALSE, verdict |-> "none"]

\* what the first column of tab 5 shows
Tab5MarketView(fc) ==
    IF Len(TrenchData(fc)) > 0
    THEN [shown |-> TRUE, verdict |-> Verdict(fc)]
    ELSE [shown |-> FALSE, verdict |-> "none"]

-----------------------------------------------------------------------------
(* Tab 2: share of total *)

\* the group keys of groupby('keyword'): missing keywords are dropped
GroupKeys(rows) == {rows[i].keyword : i \in 1..Len(rows)} \ {KwNaN}

\* groupby('keyword')['ratio'].sum() for one key: NaN skipped
GroupSum(rows, k) ==
    LET OfKey(r) == r.keyword = k /\ r.ratio # NaN
    IN  SumSeq(RatioCol(SelectSeq(rows, OfKey)))

\* the orders sort_values(ascending=False) can leave the keys in: descending
\* by value, keys of equal value in any order (the default sort is not stable)
RECURSIVE SortValuesDesc(_, _)
SortValuesDesc(keys, val) ==
    IF keys = {} THEN {<<>>}
    ELSE UNION {{<<k>> \o rest : rest \in SortValuesDesc(keys \ {k}, val)} :
                   k \in {m \in keys : \A j \in keys : val[j] <= val[m]}}

\* keyword_demand, before it is sorted
KeywordDemand(rows) == [k \in GroupKeys(rows) |-> GroupSum(rows, k)]

\* x / total * 100 rounded down to 2 decimals, in hundredths
TruncatedPercent(x, total) ==
    IF total = 0 THEN NaN ELSE (x * 10000) \div total

\* (x / total * 100).round(2), in hundredths of a percent; 0/0 is NaN
RoundedPercent(x, total) ==
    IF total = 0 THEN NaN ELSE RoundHalfEven(x * 10000, total)

\* keyword_pct for one of the orders of keyword_demand
KeywordPct(rows, order) ==
    LET total_demand == SumSeq([i \in DOMAIN order |-> GroupSum(rows, order[i])])
    IN  [i \in DOMAIN order |->
            [keyword |-> order[i],
             pct |-> RoundedPercent(GroupSum(rows, order[i]), total_demand)]]

\* Series.head(n)
HeadN(s, n) == SubSeq(s, 1, IF Len(s) < n THEN Len(s) ELSE n)

-----------------------------------------------------------------------------
(* Tab 3 and tab 5: prices *)

price_bins == <<0, 50000, 100000, 150000, 200000, 300000, Inf>>

price_labels == <<"~5man", "5~10man", "10~15man", "15~20man", "20~30man", "30man~">>

\* bins.searchsorted(x, side='left'): the number of edges below x
SearchSortedLeft(x) == Cardinality({i \in DOMAIN price_bins : price_bins[i] < x})

\* pd.cut(x, bins=price_bins, labels=price_labels) on one value, as the
\* number of the label, 0 for NaN: right=True and include_lowest=False, so
\* a value is missing, at or below the first edge, or in (edge, next edge]
Cut(x) ==
    IF x = NaN THEN 0
    ELSE LET ids == SearchSortedLeft(x)
         IN  IF ids = 0 \/ ids = Len(price_bins) THEN 0 ELSE ids

\* the assignment of the price_range column with the rows of missing price
\* dropped in place
WithPriceRangeDropna(si) ==
    LET kept == SelectSeq([i \in 1..Len(si.lprice) |-> i],
                          LAMBDA i : si.lprice[i] # NaN)
    IN  [si EXCEPT !.cols = @ \cup {"price_range"},
                   !.title = [i \in 1..Len(kept) |-> si.title[kept[i]]],
                   !.lprice = [i \in 1..Len(kept) |-> si.lprice[kept[i]]],
                   !.price_range = [i \in 1..Len(kept) |-> Cut(si.lprice[kept[i]])]]

\* shopping_items['price_range'] = pd.cut(shopping_items['lprice'], ...)
WithPriceRange(si) ==
    [si EXCEPT !.cols = @ \cup {"price_range"},
               !.price_range = [i \in 1..Len(si.lprice) |-> Cut(si.lprice[i])]]

\* value_counts() of the categorical column, in category order: one count
\* per label, missing values not counted
ValueCounts(price_range) ==
    [b \in 1..Len(price_labels) |->
        Cardinality({i \in 1..Len(price_range) : price_range[i] = b})]

\* idxmax() of the counts sorted by index: the first label of maximal count
IdxMaxSortIndex(counts) ==
    CHOOSE b \in DOMAIN counts :
        /\ \A c \in DOMAIN counts : counts[c] <= counts[b]
        /\ \A c \in DOMAIN counts : c < b => counts[c] < counts[b]

\* price_dist.idxmax() for price_dist = value_counts(): the counts are sorted
\* descending by a sort that is not stable, so labels of equal count come in
\* an order the build decides, and idxmax() takes the first of maximal count:
\* any label of maximal count
IdxMaxValueCounts(counts) ==
    {b \in DOMAIN counts : \A c \in DOMAIN counts : counts[c] <= counts[b]}

\* shopping_items['lprice'].dropna(), sorted
SortedPrices(si) == SortSeq(SelectSeq(si.lprice, IsNum), LAMBDA a, b : a < b)

\* describe()['50%']: the 0.5 quantile by linear interpolation, doubled
Quantile50(sorted) ==
    LET n == Len(sorted)
        lo == (n - 1) \div 2
    IN  IF n = 0 THEN NaN
        ELSE IF (n - 1) % 2 = 0 THEN 2 * sorted[lo + 1]
        ELSE 2 * sorted[lo + 1] + (sorted[lo + 2] - sorted[lo + 1])

\* Series.median(): the middle value, or the mean of the two middle values,
\* doubled
Median(sorted) ==
    LET n == Len(sorted)
    IN  IF n = 0 THEN NaN
        ELSE IF n % 2 = 1 THEN 2 * sorted[(n + 1) \div 2]
        ELSE sorted[n \div 2] + sorted[n \div 2 + 1]

\* f"{x:,.0f}" of a doubled value: rounded to an integer, ties to even
FormatWon(doubled) == IF doubled = NaN THEN NaN ELSE RoundHalfEven(doubled, 2)

-----------------------------------------------------------------------------
(* Tab 4: the date window and the golden time *)

\* core_trend['period'].min() and .max()
MinPeriod(ct) ==
    CHOOSE d \in {ct.rows[i].period : i \in 1..Len(ct.rows)} :
        \A i \in 1..Len(ct.rows) : d <= ct.rows[i].period

MaxPeriod(ct) ==
    CHOOSE d \in {ct.rows[i].period : i \in 1..Len(ct.rows)} :
        \A i \in 1..Len(ct.rows) : d >= ct.rows[i].period

\* a window that leaves out the rows of the end date
FilterTrendOpenEnd(ct, dr) ==
    IF Len(dr) = 2
    THEN SelectSeq(ct.rows, LAMBDA r : r.period >= dr[1] /\ r.period < dr[2])
    ELSE ct.rows

\* filtered_trend: the rows within the two dates of the range, or every row
\* when the range holds one date only
FilterTrend(ct, dr) ==
    IF Len(dr) = 2
    THEN SelectSeq(ct.rows, LAMBDA r : r.period >= dr[1] /\ r.period <= dr[2])
    ELSE ct.rows

\* filtered_trend['keyword'].unique()
AvailableKeywords(rows) == {rows[i].keyword : i \in 1..Len(rows)}

\* the golden time metrics of tab 4, shown when a keyword is selected and
\* the filtered rows reach into the golden window
GoldenView(filtered, selected, ipchun_date) ==
    LET golden_start == ipchun_date
        golden_end == ipchun_date + 14
        golden_period == SelectSeq(filtered,
            LAMBDA r : r.period >= golden_start /\ r.period <= golden_end)
    IN  IF selected # {} /\ Len(golden_period) > 0
        THEN [shown |-> TRUE,
              window |-> <<StrfMonthDay(golden_start), StrfMonthDay(golden_end)>>,
              campaign |-> StrfDate(golden_start - 7)]
        ELSE [shown |-> FALSE, window |-> <<>>, campaign |-> <<>>]

\* the three metrics of tab 5's marketing timing, written as literals
TimingView ==
    [campaign |-> <<2025, 1, 27>>,
     window |-> <<<<2025, 2, 3>>, <<2, 17>>>>]

-----------------------------------------------------------------------------
(* The files on disk and the configuration *)

SeqsUpTo(S, lo, n) == UNION {[1..k -> S] : k \in lo..n}

RowsFile(status, rows) == [status |-> status, rows |-> rows]

\* the items file: a title per item, and an lprice cell per item when the
\* file has that column
ItemsFile(status, has_lprice, lprice) ==
    [status |-> status, has_lprice |-> has_lprice,
     title |-> [i \in 1..Len(lprice) |-> i],
     lprice |-> IF has_lprice THEN lprice ELSE <<>>]

MarketRows ==
    [keyword : {KwTrench, KwCoat, KwTrend, KwNaN}, ratio : {RawText, 1, 2}]

PriceCells == {RawText, 0, 30000, 50000, 70000, 300000, 400000}

ExpansionRows ==
    [keyword : {KwTrench, KwCoat, KwJacket}, ratio : {1, 2}]
    \cup {[keyword |-> KwTrench, ratio |-> RawText]}

TrendRows == [keyword : {KwTrench, KwJacket}, period : 33..35, ratio : {1}]

DefaultMarket ==
    <<[keyword |-> KwTrench, ratio |-> 3], [keyword |-> KwTrend, ratio |-> 1]>>

DefaultPrices == <<30000, 70000>>

DefaultExpansion ==
    <<[keyword |-> KwTrench, ratio |-> 4], [keyword |-> KwJacket, ratio |-> 1]>>

\* a table of LongKeywords keywords, each of its own length and ratio
LongExpansion ==
    [i \in 1..LongKeywords |-> [keyword |-> [j \in 1..i |-> "teu"], ratio |-> i + 4]]

DefaultTrend == <<[keyword |-> KwTrench, period |-> 34, ratio |-> 1]>>

DefaultSegments == <<[keyword |-> KwJacket, ratio |-> 1]>>

Disk(fc, si, ex, ct, sg) == [fc |-> fc, si |-> si, ex |-> ex, ct |-> ct, sg |-> sg]

\* five readable files, the trend varied; core_trend holds at least one row
TrendDisks ==
    {Disk(RowsFile("ok", DefaultMarket), ItemsFile("ok", TRUE, DefaultPrices),
          RowsFile("ok", DefaultExpansion), RowsFile("ok", t),
          RowsFile("ok", DefaultSegments)) :
        t \in SeqsUpTo(TrendRows, 1, MaxTrendRows)}

\* five readable files, one of them varied
HealthyDisks ==
    {Disk(RowsFile("ok", m), ItemsFile("ok", TRUE, DefaultPrices),
          RowsFile("ok", DefaultExpansion), RowsFile("ok", DefaultTrend),
          RowsFile("ok", DefaultSegments)) :
        m \in SeqsUpTo(MarketRows, 0, MaxMarketRows)}
    \cup
    {Disk(RowsFile("ok", DefaultMarket), ItemsFile("ok", TRUE, l),
          RowsFile("ok", DefaultExpansion), RowsFile("ok", DefaultTrend),
          RowsFile("ok", DefaultSegments)) :
        l \in SeqsUpTo(PriceCells, 0, MaxItems)}
    \cup
    {Disk(RowsFile("ok", DefaultMarket), ItemsFile("ok", FALSE, DefaultPrices),
          RowsFile("ok", DefaultExpansion), RowsFile("ok", DefaultTrend),
          RowsFile("ok", DefaultSegments))}
    \cup
    {Disk(RowsFile("ok", DefaultMarket), ItemsFile("ok", TRUE, DefaultPrices),
          RowsFile("ok", e), RowsFile("ok", DefaultTrend),
          RowsFile("ok", DefaultSegments)) :
        e \in SeqsUpTo(ExpansionRows, 0, MaxExpansionRows)}
    \cup
    {Disk(RowsFile("ok", DefaultMarket), ItemsFile("ok", TRUE, DefaultPrices),
          RowsFile("ok", LongExpansion), RowsFile("ok", DefaultTrend),
          RowsFile("ok", DefaultSegments))}
    \cup TrendDisks

\* the default data with any of the files missing or with a period column
\* that does not parse
BrokenDisks ==
    {Disk(RowsFile(st[1], DefaultMarket), ItemsFile(st[2], TRUE, DefaultPrices),
          RowsFile(st[3], DefaultExpansion), RowsFile(st[4], DefaultTrend),
          RowsFile(st[5], DefaultSegments)) :
        st \in {x \in [1..5 -> {"ok", "missing", "badperiod"}] :
                   x[2] # "badperiod" /\ \E i \in 1..5 : x[i] # "ok"}}

\* ipchun_date = pd.to_datetime('2025-02-03')
IpchunDate == <<2025, 2, 3>>

\* the anchor and the dates an edited configuration sets it to
AnchorDates == {IpchunDate, <<2025, 2, 4>>, <<2025, 3, 1>>}

ViewInit ==
    [load_errors |-> 0, main_error |-> FALSE, built |-> {},
     tab1 |-> [shown |-> FALSE, verdict |-> "none"],
     keyword_pct |-> <<>>, top15 |-> <<>>, top10 |-> <<>>, top20 |-> <<>>,
     tab3 |-> [shown |-> FALSE, median |-> NaN, modal |-> 0, dist |-> <<>>],
     filtered_trend |-> <<>>,
     golden |-> [shown |-> FALSE, window |-> <<>>, campaign |-> <<>>],
     tab5 |-> [shown |-> FALSE, verdict |-> "none"],
     tab5price |-> [shown |-> FALSE, median |-> NaN, modal |-> 0],
     timing |-> [campaign |-> <<>>, window |-> <<>>]]

InitRest ==
    /\ cache = NoCache
    /\ reads = [i \in 1..5 |-> 0]
    /\ pc = "start"
    /\ tables = NoneTables
    /\ date_range = <<>>
    /\ view = ViewInit
    /\ renders = 1

Init ==
    /\ disk \in HealthyDisks \cup BrokenDisks
    /\ anchor = IpchunDate
    /\ InitRest

\* the same program with the anchor of line 94 set to another date
InitAnchor ==
    /\ disk \in TrendDisks \cup BrokenDisks
    /\ anchor \in AnchorDates
    /\ InitRest

-----------------------------------------------------------------------------
(* main, one step per block *)

\* load_data() and the check of its result
MainLoad ==
    /\ pc = "start"
    /\ LET r == CachedLoadData(cache, disk)
       IN  /\ tables' = r.value
           /\ cache' = r.cache
           /\ reads' = [i \in 1..5 |-> reads[i] + r.read[i]]
           /\ view' = [view EXCEPT !.load_errors = r.errors,
                                   !.main_error = r.value.fc.isNone]
           /\ pc' = IF r.value.fc.isNone THEN "done" ELSE "sidebar"
    /\ UNCHANGED <<disk, anchor, date_range, renders>>

\* the date_input of the sidebar: two dates within the data's span, or one
\* date while the user is still picking the second
Sidebar ==
    /\ pc = "sidebar"
    /\ LET min_date == MinPeriod(tables.ct)
           max_date == MaxPeriod(tables.ct)
       IN  \E s \in min_date..max_date :
               \/ date_range' = <<s>>
               \/ \E e \in s..max_date : date_range' = <<s, e>>
    /\ pc' = "tab1"
    /\ UNCHANGED <<disk, anchor, cache, reads, tables, view, renders>>

Tab1 ==
    /\ pc = "tab1"
    /\ view' = [view EXCEPT !.tab1 = Tab1View(tables.fc),
                            !.built = @ \cup {1}]
    /\ pc' = "tab2"
    /\ UNCHANGED <<disk, anchor, cache, reads, tables, date_range, renders>>

Tab2 ==
    /\ pc = "tab2"
    /\ LET rows == tables.ex.rows
       IN  \E order \in SortValuesDesc(GroupKeys(rows), KeywordDemand(rows)) :
               LET keyword_pct == KeywordPct(rows, order)
               IN  view' = [view EXCEPT !.keyword_pct = keyword_pct,
                                        !.top15 = HeadN(keyword_pct, 15),
                                        !.top10 = HeadN(keyword_pct, 10),
                                        !.top20 = HeadN(keyword_pct, 20),
                                        !.built = @ \cup {2}]
    /\ pc' = "tab3"
    /\ UNCHANGED <<disk, anchor, cache, reads, tables, date_range, renders>>

Tab3 ==
    /\ pc = "tab3"
    /\ IF "lprice" \in tables.si.cols
       THEN LET si == WithPriceRange(tables.si)
                price_dist == ValueCounts(si.price_range)
            IN  /\ tables' = [tables EXCEPT !.si = si]
                /\ view' = [view EXCEPT
                       !.tab3 = [shown |-> TRUE,
                                 median |-> FormatWon(Quantile50(SortedPrices(tables.si))),
                                 modal |-> IdxMaxSortIndex(price_dist),
                                 dist |-> price_dist],
                       !.built = @ \cup {3}]
       ELSE /\ tables' = tables
            /\ view' = [view EXCEPT !.built = @ \cup {3}]
    /\ pc' = "tab4"
    /\ UNCHANGED <<disk, anchor, cache, reads, date_range, renders>>

Tab4 ==
    /\ pc = "tab4"
    /\ LET filtered_trend == FilterTrend(tables.ct, date_range)
       IN  \E selected \in SUBSET AvailableKeywords(filtered_trend) :
               view' = [view EXCEPT
                   !.filtered_trend = filtered_trend,
                   !.golden = GoldenView(filtered_trend, selected, ToDatetime(anchor)),
                   !.built = @ \cup {4}]
    /\ pc' = "tab5"
    /\ UNCHANGED <<disk, anchor, cache, reads, tables, date_range, renders>>

Tab5 ==
    /\ pc = "tab5"
    /\ LET market == Tab5MarketView(tables.fc)
       IN  IF market.shown /\ "lprice" \in tables.si.cols
           THEN LET si == WithPriceRange(tables.si)
                    counts == ValueCounts(si.price_range)
                IN  /\ tables' = [tables EXCEPT !.si = si]
                    /\ \E modal \in IdxMaxValueCounts(counts) :
                           view' = [view EXCEPT
                               !.tab5 = market,
                               !.tab5price =
                                   [shown |-> TRUE,
                                    median |-> FormatWon(Median(SortedPrices(tables.si))),
                                    modal |-> modal],
                               !.timing = TimingView,
                               !.built = @ \cup {5}]
           ELSE /\ tables' = tables
                /\ view' = [view EXCEPT !.tab5 = market,
                                        !.timing = TimingView,
                                        !.built = @ \cup {5}]
    /\ pc' = "done"
    /\ UNCHANGED <<disk, anchor, cache, reads, date_range, renders>>

\* a widget change makes the runtime call main again
Rerun ==
    /\ pc = "done"
    /\ renders < MaxRenders
    /\ renders' = renders + 1
    /\ pc' = "start"
    /\ tables' = NoneTables
    /\ date_range' = <<>>
    /\ view' = ViewInit
    /\ UNCHANGED <<disk, anchor, cache, reads>>

Next ==
    \/ MainLoad
    \/ Sidebar
    \/ Tab1
    \/ Tab2
    \/ Tab3
    \/ Tab4
    \/ Tab5
    \/ Rerun

Spec == Init /\ [][Next]_vars

SpecAnchor == InitAnchor /\ [][Next]_vars

-----------------------------------------------------------------------------
(* Properties *)

SomeFileRaises == \E i \in 1..5 : FileRaises(disk, i)

\* the number of elements of s equal to r
Count(s, r) == Cardinality({i \in 1..Len(s) : s[i] = r})

PctCol(kp) == [i \in 1..Len(kp) |-> kp[i].pct]

\* C1: load_data is all-or-nothing and main fails closed.  Once load_data has
\* returned, the five tables are all loaded or all None; when any file
\* raises they are all None, load_data has reported one error, and main has
\* returned without building a tab; a tab is built only with all five loaded.
C1_AllOrNothing ==
    /\ AllLoaded(tables) \/ NoneLoaded(tables)
    /\ view.built # {} => AllLoaded(tables)
    /\ (pc # "start" /\ SomeFileRaises) =>
           /\ NoneLoaded(tables)
           /\ view.load_errors = 1
           /\ view.main_error
           /\ pc = "done"
           /\ view.built = {}
    /\ (pc # "start" /\ ~SomeFileRaises) => AllLoaded(tables) /\ view.load_errors = 0

\* a render that failed on one file while the file before it was readable
C1_Witness ==
    /\ pc = "done"
    /\ ~FileRaises(disk, 1)
    /\ FileRaises(disk, 3)
    /\ NoneLoaded(tables)
    /\ view.load_errors = 1
    /\ view.built = {}

\* C5: across the renders of one process no file is read more than once: the
\* first load_data call reads, every later call returns the memoized value.
C5_ReadAtMostOnce ==
    /\ \A i \in 1..5 : reads[i] <= 1
    /\ pc # "start" => reads[1] = 1
    /\ (renders > 1 /\ pc = "sidebar") => cache.hit /\ tables = cache.value

\* a second render that got its tables and built its tabs
C5_Witness ==
    /\ renders = 2
    /\ pc = "done"
    /\ 5 \in view.built
    /\ \A i \in 1..5 : reads[i] = 1

\* C4: with two dates selected, filtered_trend holds exactly the rows of
\* core_trend with start <= period <= end, each as often as core_trend does:
\* rows on either boundary are kept, rows outside are dropped, and an empty
\* result is a table like any other (the render goes on).
C4_InclusiveWindow ==
    (4 \in view.built /\ Len(date_range) = 2) =>
        /\ \A i \in 1..Len(tables.ct.rows) :
               LET r == tables.ct.rows[i]
               IN  Count(view.filtered_trend, r) =
                       IF date_range[1] <= r.period /\ r.period <= date_range[2]
                       THEN Count(tables.ct.rows, r) ELSE 0
        /\ Len(view.filtered_trend) <= Len(tables.ct.rows)
        /\ pc \in {"tab5", "done"}

\* a row on the boundary kept and a row one day past it dropped
C4_Witness ==
    /\ 4 \in view.built
    /\ Len(date_range) = 2
    /\ \E i \in 1..Len(view.filtered_trend) :
           /\ view.filtered_trend[i].period = date_range[1]
           /\ view.filtered_trend[i].period = date_range[2]
    /\ \E i \in 1..Len(tables.ct.rows) :
           /\ tables.ct.rows[i].period = date_range[2] + 1
           /\ Count(view.filtered_trend, tables.ct.rows[i]) = 0

\* C9: for a table whose grand total is not zero, the rounded shares of the
\* complete keyword set sum to 100.00 within half a hundredth per keyword,
\* cover every keyword once, descend, and the top-15, top-10 and top-20
\* displays are the first 15, 10 and 20 entries of that one series.
C9_ShareOfTotal ==
    2 \in view.built =>
        LET kp == view.keyword_pct
            n == Len(kp)
            rows == tables.ex.rows
            total == SumSeq(SelectSeq(RatioCol(rows), IsNum))
            Prefix(top, depth) ==
                /\ Len(top) = IF n < depth THEN n ELSE depth
                /\ \A i \in 1..Len(top) : top[i] = kp[i]
        IN  /\ {kp[i].keyword : i \in 1..n} = {rows[i].keyword : i \in 1..Len(rows)}
            /\ \A i, j \in 1..n : i # j => kp[i].keyword # kp[j].keyword
            /\ Prefix(view.top15, 15)
            /\ Prefix(view.top10, 10)
            /\ Prefix(view.top20, 20)
            /\ total # 0 =>
                   /\ 2 * SumSeq(PctCol(kp)) - 20000 <= n
                   /\ 20000 - 2 * SumSeq(PctCol(kp)) <= n
                   /\ \A i \in 1..(n - 1) : kp[i].pct >= kp[i + 1].pct

\* more keywords than the deepest display shows, all three displays cut
C9_Witness ==
    /\ 2 \in view.built
    /\ Len(view.keyword_pct) > 20
    /\ Len(view.top15) = 15
    /\ Len(view.top10) = 10
    /\ Len(view.top20) = 20
    /\ SumSeq(PctCol(view.keyword_pct)) # 10000

C2_ExhaustiveDisjoint ==
    view.tab3.shown =>
        /\ \A i \in 1..Len(tables.si.lprice) :
               tables.si.lprice[i] # NaN =>
                   tables.si.price_range[i] \in 1..Len(price_labels)
        /\ SumSeq(view.tab3.dist) = Len(SelectSeq(tables.si.lprice, IsNum))

\* C3, as claimed: a price equal to a bucket boundary is counted in the
\* bucket whose lower edge is that boundary.
C3_BoundaryInUpperBucket ==
    view.tab3.shown =>
        \A i \in 1..Len(tables.si.lprice) :
            \A b \in 1..Len(price_labels) :
                tables.si.lprice[i] = price_bins[b] => tables.si.price_range[i] = b

\* C7, as claimed: where both means are numbers, the market view reports
\* above exactly when the matched mean is greater than the overall mean,
\* below exactly when it is smaller (not when they are equal), and the launch
\* view reports the same verdict.
C7_VerdictIsComparison ==
    LET trench_avg == Mean(RatioCol(TrenchData(tables.fc)))
        market_avg == Mean(RatioCol(tables.fc.rows))
    IN  (view.tab1.shown /\ trench_avg[2] > 0 /\ market_avg[2] > 0) =>
            /\ view.tab1.verdict = "above" <=> MeanGt(trench_avg, market_avg)
            /\ view.tab1.verdict = "below" <=> MeanGt(market_avg, trench_avg)
            /\ 5 \in view.built => view.tab5 = view.tab1

\* C8, as claimed: the window end is the anchor plus 14 days and the campaign
\* start the anchor minus 7 days in the trend view and in the launch view,
\* whatever the anchor is set to.
C8_DatesFollowAnchor ==
    LET ipchun_date == ToDatetime(anchor)
    IN  /\ view.golden.shown =>
               /\ view.golden.window =
                      <<StrfMonthDay(ipchun_date), StrfMonthDay(ipchun_date + 14)>>
               /\ view.golden.campaign = StrfDate(ipchun_date - 7)
        /\ 5 \in view.built =>
               /\ view.timing.campaign = StrfDate(ipchun_date - 7)
               /\ view.timing.window =
                      <<StrfDate(ipchun_date), StrfMonthDay(ipchun_date + 14)>>

\* C10, as claimed: the median and the most common price range of the launch
\* view equal those of the price view, ties for the maximal count included.
C10_LaunchMatchesPriceView ==
    view.tab5price.shown =>
        /\ view.tab3.shown
        /\ view.tab5price.median = view.tab3.median
        /\ view.tab5price.modal = view.tab3.modal

=============================================================================
